---- MODULE Spec2Model ----
(***************************************************************************)
(* Model of agentic_app.py: the "Generate Queries and Execute" button      *)
(* handler.  One run of the handler validates the form, builds the model,  *)
(* asks it for a SQL and a Cypher query, sanitizes the SQL text, executes  *)
(* both queries and renders the outcome.  Strings whose content matters    *)
(* (the generated SQL) are sequences of one-character strings.             *)
(***************************************************************************)
EXTENDS Integers, Sequences, FiniteSets, TLC

VARIABLES pc, question, groq_api_key, sql_query, cypher_query,
          sql_results, cypher_results, conn, cursor, driver, session,
          calls, closes, pgReply, neoReply, out

vars == <<pc, question, groq_api_key, sql_query, cypher_query,
          sql_results, cypher_results, conn, cursor, driver, session,
          calls, closes, pgReply, neoReply, out>>

(* ---------------- bounds of the model ---------------- *)
MaxTextLen == 5
MaxRows == 1

(* ---------------- input domains ---------------- *)
(* "bq" stands for the grave accent U+0060, which a TLA+ string cannot hold *)
Alphabet == {"<", "s", ">", " ", "bq", "a"}
Completions == UNION {[1..n -> Alphabet] : n \in 0..MaxTextLen}
CypherCompletions == {<<"M">>, <<"M", "bq">>}
Questions == {"", "q"}
ApiKeys == {"", "k"}
PgFaults == {"connect", "cursor", "execute", "fetch"}
NeoFaults == {"driver", "session", "run", "data"}

(* a Python name that is not bound yet, and the value None *)
Unbound == <<"unbound">>
None == [kind |-> "None", rows |-> <<>>, msg |-> ""]
RowList(n) == [kind |-> "list", rows |-> [i \in 1..n |-> i], msg |-> ""]
ErrorText(e) == [kind |-> "str", rows |-> <<>>, msg |-> e]
NoReply == [fault |-> "not_called", n |-> 0]
PgReplies == [fault : PgFaults, n : {0}] \cup [fault : {"none"}, n : 0..MaxRows]
NeoReplies == [fault : NeoFaults, n : {0}] \cup [fault : {"none"}, n : 0..MaxRows]

(* ---------------- str.replace and the sanitizer ---------------- *)
Sentinel == <<"<", "s", ">", " ">>
Backtick == <<"bq">>

RECURSIVE Replace(_, _, _)
Replace(s, old, new) ==
    IF Len(s) < Len(old) THEN s
    ELSE IF SubSeq(s, 1, Len(old)) = old
         THEN new \o Replace(SubSeq(s, Len(old) + 1, Len(s)), old, new)
         ELSE <<Head(s)>> \o Replace(Tail(s), old, new)

Sanitize(s) == Replace(Replace(s, Sentinel, <<>>), Backtick, <<>>)

Contains(s, pat) ==
    \E i \in 1..(Len(s) - Len(pat) + 1) : SubSeq(s, i, i + Len(pat) - 1) = pat

(* ---------------- state after construction ---------------- *)
NoCalls == [model_sql |-> 0, model_cypher |-> 0, pg_connect |-> 0,
            pg_execute |-> 0, neo_driver |-> 0, neo_run |-> 0]
NoCloses == [conn |-> 0, cursor |-> 0, driver |-> 0, session |-> 0]

Fresh ==
    /\ sql_query = Unbound
    /\ cypher_query = Unbound
    /\ sql_results = Unbound
    /\ cypher_results = Unbound
    /\ conn = "none"
    /\ cursor = "none"
    /\ driver = "none"
    /\ session = "none"
    /\ calls = NoCalls
    /\ closes = NoCloses
    /\ pgReply = NoReply
    /\ neoReply = NoReply
    /\ out = <<>>

Init ==
    /\ pc = "idle"
    /\ question = ""
    /\ groq_api_key = ""
    /\ Fresh

(* ---------------- the handler, step by step ---------------- *)
OuterExcept(e) ==
    /\ pc' = "done"
    /\ out' = Append(out, <<"error", "An error occurred", e>>)

(* variant: only the question is validated *)
ConfigErrorQuestionOnly(q, k) ==
    IF q = "" THEN <<"error", "Please enter a question.">>
    ELSE <<>>

ConfigError(q, k) ==
    IF q = "" THEN <<"error", "Please enter a question.">>
    ELSE IF k = "" THEN <<"error", "GROQ API Key not set. Please add it above.">>
    ELSE <<>>

(* A click re-runs the script in a fresh namespace with the form values. *)
Submit ==
    /\ pc \in {"idle", "done"}
    /\ \E q \in Questions, k \in ApiKeys :
         /\ question' = q
         /\ groq_api_key' = k
         /\ IF ConfigError(q, k) # <<>>
            THEN pc' = "done" /\ out' = <<ConfigError(q, k)>>
            ELSE pc' = "init_model" /\ out' = <<>>
    /\ sql_query' = Unbound
    /\ cypher_query' = Unbound
    /\ sql_results' = Unbound
    /\ cypher_results' = Unbound
    /\ conn' = "none"
    /\ cursor' = "none"
    /\ driver' = "none"
    /\ session' = "none"
    /\ calls' = NoCalls
    /\ closes' = NoCloses
    /\ pgReply' = NoReply
    /\ neoReply' = NoReply


InitModel ==
    /\ pc = "init_model"
    /\ \E chatGroq \in {"missing", "raises", "ok"} :
         CASE chatGroq = "missing" ->
                /\ pc' = "done"
                /\ out' = Append(out, <<"error", "ChatGroq is not available.">>)
           [] chatGroq = "raises" -> OuterExcept("ChatGroq")
           [] OTHER -> pc' = "invoke_sql" /\ out' = out
    /\ UNCHANGED <<question, groq_api_key, sql_query, cypher_query,
                   sql_results, cypher_results, conn, cursor, driver,
                   session, calls, closes, pgReply, neoReply>>

InvokeSqlChain ==
    /\ pc = "invoke_sql"
    /\ calls' = [calls EXCEPT !.model_sql = @ + 1]
    /\ \/ /\ OuterExcept("sql_chain.invoke")
          /\ sql_query' = sql_query
       \/ \E t \in Completions :
            /\ sql_query' = t
            /\ pc' = "sanitize_sql"
            /\ out' = out
    /\ UNCHANGED <<question, groq_api_key, cypher_query, sql_results,
                   cypher_results, conn, cursor, driver, session, closes,
                   pgReply, neoReply>>

SanitizeSql ==
    /\ pc = "sanitize_sql"
    /\ sql_query' = Sanitize(sql_query)
    /\ pc' = "invoke_cypher"
    /\ UNCHANGED <<question, groq_api_key, cypher_query, sql_results,
                   cypher_results, conn, cursor, driver, session, calls,
                   closes, pgReply, neoReply, out>>

InvokeCypherChain ==
    /\ pc = "invoke_cypher"
    /\ calls' = [calls EXCEPT !.model_cypher = @ + 1]
    /\ \/ /\ OuterExcept("cypher_chain.invoke")
          /\ cypher_query' = cypher_query
       \/ \E t \in CypherCompletions :
            /\ cypher_query' = t
            /\ pc' = "exec_sql"
            /\ out' = out
    /\ UNCHANGED <<question, groq_api_key, sql_query, sql_results,
                   cypher_results, conn, cursor, driver, session, closes,
                   pgReply, neoReply>>

(* variant: no inner try around the SQL block, the error reaches the catch-all *)
SqlExceptPropagates(e) ==
    /\ sql_results' = sql_results
    /\ OuterExcept(e)

(* variant: the SQL block is attempted again after an error *)
SqlExceptRetry(e) ==
    /\ sql_results' = ErrorText(e)
    /\ pc' = "exec_sql"
    /\ out' = out

(* variant: the SQL handler mirrors the Cypher one and stores None *)
SqlExceptNone(e) ==
    /\ sql_results' = None
    /\ pc' = "exec_cypher"
    /\ out' = Append(out, <<"error", "Error executing SQL query", e>>)

SqlExcept(e) ==
    /\ sql_results' = ErrorText(e)
    /\ pc' = "exec_cypher"
    /\ out' = out

ExecuteSql ==
    /\ pc = "exec_sql"
    /\ \E reply \in PgReplies :
         /\ pgReply' = reply
         /\ calls' = [calls EXCEPT
                !.pg_connect = @ + 1,
                !.pg_execute = IF reply.fault \in {"connect", "cursor"}
                               THEN @ ELSE @ + 1]
         /\ conn' = CASE reply.fault = "connect" -> "none"
                      [] reply.fault = "none" -> "closed"
                      [] OTHER -> "open"
         /\ cursor' = CASE reply.fault \in {"connect", "cursor"} -> "none"
                        [] reply.fault = "none" -> "closed"
                        [] OTHER -> "open"
         /\ closes' = IF reply.fault = "none"
                      THEN [closes EXCEPT !.conn = @ + 1, !.cursor = @ + 1]
                      ELSE closes
         /\ IF reply.fault = "none"
            THEN /\ sql_results' = RowList(reply.n)
                 /\ pc' = "exec_cypher"
                 /\ out' = out
            ELSE SqlExcept(reply.fault)
    /\ UNCHANGED <<question, groq_api_key, sql_query, cypher_query,
                   cypher_results, driver, session, neoReply>>

(* variant: the Cypher handler stores an empty list instead of None *)
CypherExceptEmptyList(e) ==
    /\ cypher_results' = RowList(0)
    /\ out' = Append(out, <<"error", "Error executing Cypher query", e>>)
    /\ pc' = "present"

CypherExcept(e) ==
    /\ cypher_results' = None
    /\ out' = Append(out, <<"error", "Error executing Cypher query", e>>)
    /\ pc' = "present"

ExecuteCypher ==
    /\ pc = "exec_cypher"
    /\ \E reply \in NeoReplies :
         /\ neoReply' = reply
         /\ calls' = [calls EXCEPT
                !.neo_driver = @ + 1,
                !.neo_run = IF reply.fault \in {"driver", "session"}
                            THEN @ ELSE @ + 1]
         /\ driver' = CASE reply.fault = "driver" -> "none"
                        [] reply.fault = "none" -> "closed"
                        [] OTHER -> "open"
         /\ session' = IF reply.fault \in {"driver", "session"}
                       THEN "none" ELSE "closed"
         /\ closes' = [closes EXCEPT
                !.session = IF reply.fault \in {"driver", "session"}
                            THEN @ ELSE @ + 1,
                !.driver = IF reply.fault = "none" THEN @ + 1 ELSE @]
         /\ IF reply.fault = "none"
            THEN /\ cypher_results' = RowList(reply.n)
                 /\ pc' = "present"
                 /\ out' = out
            ELSE CypherExcept(reply.fault)
    /\ UNCHANGED <<question, groq_api_key, sql_query, cypher_query,
                   sql_results, conn, cursor, pgReply>>

Neo4jColumn ==
    <<<<"code", "cypher">>,
      IF cypher_results # None
      THEN <<"json", cypher_results.kind>>
      ELSE <<"warning", "Cypher query execution failed or returned no results.">>>>

SqlColumn ==
    <<<<"code", "sql">>,
      IF sql_results # None
      THEN <<"dataframe", sql_results.kind>>
      ELSE <<"warning", "SQL query execution failed or returned no results.">>>>

Present ==
    /\ pc = "present"
    /\ out' = out \o Neo4jColumn \o SqlColumn
    /\ pc' = "done"
    /\ UNCHANGED <<question, groq_api_key, sql_query, cypher_query,
                   sql_results, cypher_results, conn, cursor, driver,
                   session, calls, closes, pgReply, neoReply>>

Next ==
    \/ Submit
    \/ InitModel
    \/ InvokeSqlChain
    \/ SanitizeSql
    \/ InvokeCypherChain
    \/ ExecuteSql
    \/ ExecuteCypher
    \/ Present

Spec == Init /\ [][Next]_vars

TypeOK ==
    /\ pc \in {"idle", "init_model", "invoke_sql", "sanitize_sql",
               "invoke_cypher", "exec_sql", "exec_cypher", "present", "done"}
    /\ conn \in {"none", "open", "closed"}
    /\ cursor \in {"none", "open", "closed"}
    /\ driver \in {"none", "open", "closed"}
    /\ session \in {"none", "open", "closed"}

(* ---------------- properties ---------------- *)
Shown(w) == \E i \in 1..Len(out) : out[i] = w
SqlWarning == <<"warning", "SQL query execution failed or returned no results.">>
CypherWarning == <<"warning", "Cypher query execution failed or returned no results.">>
SqlExecutorReturned == pgReply # NoReply /\ pc \in {"exec_cypher", "present", "done"}
CypherExecutorReturned == neoReply # NoReply /\ pc \in {"present", "done"}
Presented == Shown(<<"code", "sql">>)

(* C1: a submission with an empty question or an empty model credential   *)
(* ends with exactly one configuration error message and no network call: *)
(* no model invocation and no executor started.                            *)
C1_ConfigErrorNoNetwork ==
    (pc # "idle" /\ (question = "" \/ groq_api_key = "")) =>
        /\ pc = "done"
        /\ Len(out) = 1
        /\ out[1][1] = "error"
        /\ calls = NoCalls
        /\ conn = "none" /\ cursor = "none"
        /\ driver = "none" /\ session = "none"
        /\ sql_query = Unbound /\ cypher_query = Unbound

C1_Witness ==
    /\ pc = "done"
    /\ question = "q"
    /\ groq_api_key = ""
    /\ out = <<<<"error", "GROQ API Key not set. Please add it above.">>>>

(* C2: once both queries are generated, both executors are attempted, the *)
(* SQL outcome depends on the PostgreSQL reply only, the Cypher outcome on  *)
(* the Neo4j reply only, and both outcomes are rendered.                    *)
C2_ExecutionIndependence ==
    (pc = "done" /\ cypher_query # Unbound) =>
        /\ calls.pg_connect = 1
        /\ calls.neo_driver = 1
        /\ sql_results = IF pgReply.fault = "none"
                         THEN RowList(pgReply.n)
                         ELSE ErrorText(pgReply.fault)
        /\ cypher_results = IF neoReply.fault = "none"
                            THEN RowList(neoReply.n)
                            ELSE None
        /\ Shown(<<"dataframe", sql_results.kind>>)
        /\ IF neoReply.fault = "none"
           THEN Shown(<<"json", "list">>)
           ELSE Shown(CypherWarning)

C2_Witness ==
    /\ pc = "done"
    /\ pgReply.fault = "connect"
    /\ neoReply = [fault |-> "none", n |-> 1]
    /\ cypher_results = RowList(1)
    /\ Shown(<<"json", "list">>)
    /\ Shown(<<"dataframe", "str">>)

(* C3: when the model call fails for one dialect, the other dialect is     *)
(* still generated, executed and presented.                                 *)
SqlGenerationFailed == calls.model_sql = 1 /\ sql_query = Unbound
CypherGenerationFailed == calls.model_cypher = 1 /\ cypher_query = Unbound
C3_GenerationIndependence ==
    pc = "done" =>
        /\ SqlGenerationFailed =>
             /\ cypher_query # Unbound
             /\ calls.neo_driver = 1
             /\ Shown(<<"code", "cypher">>)
        /\ CypherGenerationFailed =>
             /\ calls.pg_connect = 1
             /\ Shown(<<"code", "sql">>)

(* C4: when the relational executor has returned, a connection and a      *)
(* cursor that were opened are closed, each exactly once.                   *)
C4_PgReleased ==
    SqlExecutorReturned =>
        /\ conn # "none" => (conn = "closed" /\ closes.conn = 1)
        /\ cursor # "none" => (cursor = "closed" /\ closes.cursor = 1)

(* C5: when the graph executor has returned, a driver and a session that  *)
(* were opened are closed, each exactly once.                               *)
C5_NeoReleased ==
    CypherExecutorReturned =>
        /\ driver # "none" => (driver = "closed" /\ closes.driver = 1)
        /\ session # "none" => (session = "closed" /\ closes.session = 1)

(* C6: the text handed to cursor.execute holds neither the sentinel nor a *)
(* backtick.                                                                *)
C6_ExecutedTextClean ==
    calls.pg_execute >= 1 =>
        /\ ~Contains(sql_query, Sentinel)
        /\ ~Contains(sql_query, Backtick)

(* C7: sanitizing is idempotent on every completion the model can return. *)
C7_SanitizeIdempotent ==
    pc = "sanitize_sql" =>
        Sanitize(Sanitize(sql_query)) = Sanitize(sql_query)

(* C8: after the graph executor, the Cypher result is None exactly when    *)
(* the executor hit an error, the error is then shown; a success with zero  *)
(* records is an empty list, differs from None and is rendered as a result. *)
C8_CypherNoneIffError ==
    CypherExecutorReturned =>
        /\ (cypher_results = None) <=> (neoReply.fault # "none")
        /\ cypher_results = None =>
             Shown(<<"error", "Error executing Cypher query", neoReply.fault>>)
        /\ neoReply.fault = "none" =>
             /\ cypher_results = RowList(neoReply.n)
             /\ Len(cypher_results.rows) = neoReply.n
             /\ cypher_results # None
             /\ pc = "done" => (Shown(<<"json", "list">>) /\ ~Shown(CypherWarning))

C8_Witness ==
    /\ pc = "done"
    /\ neoReply = [fault |-> "none", n |-> 0]
    /\ cypher_results.kind = "list"
    /\ cypher_results.rows = <<>>
    /\ Shown(<<"json", "list">>)

(* C9: within one submission every network operation happens at most once: *)
(* one model call per dialect, one PostgreSQL connect and execute, one      *)
(* Neo4j driver and run; a failure is followed by no second attempt.        *)
C9_NoRetry ==
    /\ \A k \in DOMAIN calls : calls[k] <= 1
    /\ SqlGenerationFailed => pc = "done"
    /\ CypherGenerationFailed => pc = "done"

C9_Witness ==
    /\ pc = "done"
    /\ pgReply.fault = "execute"
    /\ neoReply.fault = "run"
    /\ calls = [model_sql |-> 1, model_cypher |-> 1, pg_connect |-> 1,
                pg_execute |-> 1, neo_driver |-> 1, neo_run |-> 1]

(* C10: at the presenter the SQL result is never None: it is the fetched   *)
(* rows or an error string, the SQL warning is never shown, a failed SQL    *)
(* execution is rendered as a dataframe and a failed Cypher execution as a  *)
(* warning.                                                                  *)
C10_SqlResultNeverNone ==
    (pc = "present" \/ Presented) =>
        /\ sql_results # None
        /\ sql_results.kind \in {"list", "str"}
        /\ (sql_results.kind = "str") <=> (pgReply.fault # "none")
        /\ ~Shown(SqlWarning)
        /\ (pc = "done" /\ pgReply.fault # "none") => Shown(<<"dataframe", "str">>)
        /\ (pc = "done" /\ neoReply.fault # "none") =>
             (Shown(CypherWarning) /\ ~Shown(<<"json", "list">>))

C10_Witness ==
    /\ pc = "done"
    /\ pgReply.fault = "fetch"
    /\ neoReply.fault = "run"
    /\ sql_results = ErrorText("fetch")
    /\ Shown(<<"dataframe", "str">>)
    /\ Shown(CypherWarning)
====
